---- MODULE Spec2Model ----
(***************************************************************************)
(* Model of slideshow.py: the photo catalog read by read_file, the         *)
(* candidate slides of build_candidate_slides, the mixed-integer model of  *)
(* build_model (its variables z, x, pos and every constraint it adds), an  *)
(* assignment returned by model.optimize(), the walk of get_solution and   *)
(* the score and final slideshow computed by the main script.              *)
(*                                                                         *)
(* Photo ids and candidate indices are 0-based as in the source; the       *)
(* sequences that hold them are 1-based, so photo i is images[i + 1] and   *)
(* candidate s is candidates[s + 1].  Node 0 is START, nodes 1..n are the  *)
(* candidates and node n + 1 is END.                                       *)
(***************************************************************************)
EXTENDS Integers, Sequences, FiniteSets, TLC

VARIABLES nb_images, images, horizontales, verticales,
          candidates, n, z, x,
          order, current, slide_order,
          total_score, final_slideshow, pc

vars == <<nb_images, images, horizontales, verticales, candidates, n, z, x,
          order, current, slide_order, total_score, final_slideshow, pc>>

(* ------------------------------ bounds -------------------------------- *)

\* Largest number of photos in a dataset that is solved, and in a dataset
\* whose model is only built.
MaxPhotos == 3
MaxBuildPhotos == 4
\* Largest number of candidates for which the assignments of the model are
\* enumerated; the model of a larger catalog is built but not solved.
MaxCand == 3
\* Iterations of the walk of get_solution beyond the n + 1 a path needs.
MaxExtraSteps == 2
\* Largest number of candidates, and of arcs set to 1, in an arbitrary arc
\* assignment handed to get_solution.
MaxWalkCand == 3
MaxOnes == 3

\* The first token of a dataset line: 'H', 'V', or anything else ("X").
Orientations == {"H", "V", "X"}
\* The tag sets a dataset line may carry.
TagSets == {{"a", "b"}, {"b", "c"}}

(* --------------------------- pure functions --------------------------- *)

Min2(a, b) == IF a <= b THEN a ELSE b

score_transition(tags1, tags2) ==
    LET commun == Cardinality(tags1 \cap tags2)
        diff1  == Cardinality(tags1 \ tags2)
        diff2  == Cardinality(tags2 \ tags1)
    IN  Min2(commun, Min2(diff1, diff2))

\* itertools.combinations(seq, 2): the pairs of elements of seq at
\* positions a < b, in lexicographic order of the positions.
RECURSIVE PairsFrom(_, _, _)
PairsFrom(seq, a, b) ==
    IF a >= Len(seq) THEN <<>>
    ELSE IF b > Len(seq) THEN PairsFrom(seq, a + 1, a + 2)
    ELSE <<(<<seq[a], seq[b]>>)>> \o PairsFrom(seq, a, b + 1)

combinations2(seq) == PairsFrom(seq, 1, 2)

HCandidate(imgs, i) ==
    [type |-> "H", photos |-> <<i>>, tags |-> imgs[i + 1].tags]

VCandidateStale(imgs, p) ==
    [type |-> "V", photos |-> p, tags |-> imgs[p[1] + 1].tags]

VCandidate(imgs, p) ==
    [type |-> "V", photos |-> p,
     tags |-> imgs[p[1] + 1].tags \cup imgs[p[2] + 1].tags]

build_candidate_slides(imgs, hs, vs) ==
    LET pairs == combinations2(vs)
    IN  [k \in 1..Len(hs) |-> HCandidate(imgs, hs[k])]
        \o [k \in 1..Len(pairs) |-> VCandidate(imgs, pairs[k])]

(* ------------------ the model built by build_model -------------------- *)

Nodes(nn) == 0..(nn + 1)

\* The keys of the dictionary x: every ordered pair of distinct nodes.
Arcs(nn) == {a \in Nodes(nn) \X Nodes(nn) : a[1] # a[2]}

\* The keys of x whose origin is node i.
RowArcs(i, nn) == {<<i, j>> : j \in Nodes(nn) \ {i}}

Range(seq) == {seq[k] : k \in 1..Len(seq)}

\* gp.quicksum(f[k] for k in S)
RECURSIVE quicksum(_, _)
quicksum(f, S) ==
    IF S = {} THEN 0
    ELSE LET k == CHOOSE e \in S : TRUE
         IN  f[k] + quicksum(f, S \ {k})

\* cost[s, t] for candidates s # t.
cost(cands, s, t) == score_transition(cands[s + 1].tags, cands[t + 1].tags)

\* The lower bound of the binary variable z[s]: 1 for an 'H' candidate.
ZLowerFree(cands, s) == 0

ZLower(cands, s) == IF cands[s + 1].type = "H" THEN 1 ELSE 0

\* The candidates of one "unicite" constraint taken from the first member
\* of the pair only.
candidates_lies_first(cands, photo) ==
    {s \in 0..(Len(cands) - 1) :
        cands[s + 1].type = "V" /\ photo = cands[s + 1].photos[1]}

candidates_lies(cands, photo) ==
    {s \in 0..(Len(cands) - 1) :
        cands[s + 1].type = "V" /\ photo \in Range(cands[s + 1].photos)}

\* unicite_<photo>, for every photo of verticales.
Unicite(zz, cands, vs) ==
    \A k \in 1..Len(vs) :
        LET lies == candidates_lies(cands, vs[k])
        IN  lies # {} => quicksum(zz, lies) <= 1

\* sortie_start: the sum runs over the real nodes 1..n only.
SortieStart(xx, nn) == quicksum(xx, {<<0, j>> : j \in 1..nn}) = 1

\* entree_end: the sum runs over the real nodes 1..n only.
EntreeEnd(xx, nn) == quicksum(xx, {<<i, nn + 1>> : i \in 1..nn}) = 1

\* noeud_<i>_entrant
NoeudEntrant(xx, zz, nn, i) ==
    quicksum(xx, {<<j, i>> : j \in Nodes(nn) \ {i}}) = zz[i - 1]

\* noeud_<i>_sortant with the degree of a plain Hamiltonian path.
NoeudSortantAll(xx, zz, nn, i) ==
    quicksum(xx, {<<i, j>> : j \in Nodes(nn) \ {i}}) = 1

\* noeud_<i>_sortant
NoeudSortant(xx, zz, nn, i) ==
    quicksum(xx, {<<i, j>> : j \in Nodes(nn) \ {i}}) = zz[i - 1]

\* prec_start
PrecStart(xx, nn) == quicksum(xx, {<<i, 0>> : i \in Nodes(nn) \ {0}}) = 0

\* succ_end
SuccEnd(xx, nn) ==
    quicksum(xx, {<<nn + 1, j>> : j \in Nodes(nn) \ {nn + 1}}) = 0

\* MTZ_<i>_<j> with the right-hand side n.
MTZWeak(xx, pp, nn) ==
    \A i \in 1..nn : \A j \in 1..nn :
        i # j => pp[i] - pp[j] + nn * xx[<<i, j>>] <= nn

\* MTZ_<i>_<j>, for every ordered pair of distinct real nodes.
MTZ(xx, pp, nn) ==
    \A i \in 1..nn : \A j \in 1..nn :
        i # j => pp[i] - pp[j] + nn * xx[<<i, j>>] <= nn - 1

\* The domains of the variables: z binary with its bounds, x binary,
\* pos an integer of [1, n].
ZDomain(cands) ==
    {zz \in [0..(Len(cands) - 1) -> {0, 1}] :
        \A s \in DOMAIN zz : zz[s] >= ZLower(cands, s)}

PosDomain(nn) == [1..nn -> 1..nn]

\* The constraint of build_model that reads only the arcs leaving node i.
RowConstraint(xx, zz, nn, i) ==
    IF i = 0 THEN SortieStart(xx, nn)
    ELSE IF i = nn + 1 THEN SuccEnd(xx, nn)
    ELSE NoeudSortant(xx, zz, nn, i)

\* The constraints of build_model that read arcs of several origins.
ColumnConstraints(xx, zz, nn) ==
    /\ EntreeEnd(xx, nn)
    /\ PrecStart(xx, nn)
    /\ \A i \in 1..nn : NoeudEntrant(xx, zz, nn, i)

\* Every constraint of build_model on an assignment (zz, xx, pp).
Constraints(zz, xx, pp, cands, vs) ==
    LET nn == Len(cands)
    IN  /\ Unicite(zz, cands, vs)
        /\ \A i \in Nodes(nn) : RowConstraint(xx, zz, nn, i)
        /\ ColumnConstraints(xx, zz, nn)
        /\ MTZ(xx, pp, nn)

\* The objective of build_model at xx.
Objective(xx, cands) ==
    LET nn == Len(cands)
        real == {a \in (1..nn) \X (1..nn) : a[1] # a[2]}
        term == [a \in real |-> cost(cands, a[1] - 1, a[2] - 1) * xx[a]]
    IN  quicksum(term, real)

(* ------------- the assignments model.optimize() can return ------------ *)

\* The 0/1 values of the arcs leaving node i that satisfy the constraint
\* on them.  Each of sortie_start, noeud_<i>_sortant and succ_end reads the
\* arcs of one origin only, so the arc assignments satisfying all of them
\* are the products of these rows.
Rows(zz, nn, i) ==
    {r \in [RowArcs(i, nn) -> {0, 1}] : RowConstraint(r, zz, nn, i)}

RECURSIVE RowProduct(_, _, _)
RowProduct(zz, nn, i) ==
    IF i < 0 THEN {<<>>}
    ELSE {p @@ r : p \in RowProduct(zz, nn, i - 1), r \in Rows(zz, nn, i)}

\* The pairs <<z, x>> for which some pos completes a feasible assignment.
\* pos is never read back by the program, so it is not part of the state.
Solutions(cands, vs) ==
    LET nn == Len(cands)
        zs == {zz \in ZDomain(cands) : Unicite(zz, cands, vs)}
        xs(zz) == {xx \in RowProduct(zz, nn, nn + 1) :
                      /\ ColumnConstraints(xx, zz, nn)
                      /\ \E pp \in PosDomain(nn) : MTZ(xx, pp, nn)}
    IN  UNION {{<<zz, xx>> : xx \in xs(zz)} : zz \in zs}

(* ----------------------------- get_solution --------------------------- *)

\* The nodes j that the inner for loop would accept at node cur.
Successors(xx, nn, cur) ==
    {j \in Nodes(nn) : cur # j /\ xx[<<cur, j>>] = 1}

\* The node at which the inner for loop breaks: range(n + 2) is scanned in
\* increasing order, so it is the least accepted node.
NextNode(xx, nn, cur) ==
    CHOOSE j \in Successors(xx, nn, cur) :
        \A k \in Successors(xx, nn, cur) : j <= k

\* The while loop is over: END is reached, or the for loop found no arc
\* and its else branch breaks.
WalkOver(xx, nn, cur) == cur = nn + 1 \/ Successors(xx, nn, cur) = {}

\* Lines 170-175: the sentinels are stripped from the two ends and the
\* nodes become candidate indices.
StripFirst(ord) ==
    IF ord # <<>> /\ ord[1] = 0 THEN SubSeq(ord, 2, Len(ord)) ELSE ord

StripLast(ord, nn) ==
    IF ord # <<>> /\ ord[Len(ord)] = nn + 1
    THEN SubSeq(ord, 1, Len(ord) - 1) ELSE ord

candidate_order(ord, nn) ==
    LET stripped == StripLast(StripFirst(ord), nn)
    IN  [k \in 1..Len(stripped) |-> stripped[k] - 1]

(* --------------------------- the main script -------------------------- *)

\* The transitions summed by a loop over range(len(so) - 2).
TransitionsShort(so) == 1..(Len(so) - 2)

\* The transitions summed by the loop over range(len(so) - 1).
Transitions(so) == 1..(Len(so) - 1)

TotalScore(so, cands) ==
    LET term == [k \in Transitions(so) |->
                    score_transition(cands[so[k] + 1].tags,
                                     cands[so[k + 1] + 1].tags)]
    IN  quicksum(term, Transitions(so))

RECURSIVE FinalSlideshow(_, _, _)
FinalSlideshow(so, zz, cands) ==
    IF so = <<>> THEN <<>>
    ELSE (IF zz[so[1]] = 1 THEN <<cands[so[1] + 1].photos>> ELSE <<>>)
         \o FinalSlideshow(Tail(so), zz, cands)

(* ------------------------------ the state ----------------------------- *)

Init ==
    /\ nb_images \in 0..MaxPhotos
    /\ images = <<>>
    /\ horizontales = <<>>
    /\ verticales = <<>>
    /\ candidates = <<>>
    /\ n = 0
    /\ z = <<>>
    /\ x = <<>>
    /\ order = <<>>
    /\ current = 0
    /\ slide_order = <<>>
    /\ total_score = 0
    /\ final_slideshow = <<>>
    /\ pc = "read"

\* read_file, one iteration of its loop: photo i = len(images) is read.
ReadLine ==
    /\ pc = "read"
    /\ Len(images) < nb_images
    /\ \E orientation \in Orientations, tags \in TagSets :
          LET i == Len(images)
          IN  /\ images' = Append(images,
                              [orientation |-> orientation, tags |-> tags])
              /\ IF orientation = "H"
                 THEN /\ horizontales' = Append(horizontales, i)
                      /\ verticales' = verticales
                 ELSE /\ verticales' = Append(verticales, i)
                      /\ horizontales' = horizontales
    /\ UNCHANGED <<nb_images, candidates, n, z, x, order, current,
                   slide_order, total_score, final_slideshow, pc>>

\* build_model: it validates nothing and always returns the model.
BuildModel ==
    /\ pc = "read"
    /\ Len(images) = nb_images
    /\ candidates' = build_candidate_slides(images, horizontales, verticales)
    /\ n' = Len(candidates')
    /\ pc' = "built"
    /\ UNCHANGED <<nb_images, images, horizontales, verticales, z, x, order,
                   current, slide_order, total_score, final_slideshow>>

\* model.optimize(): any assignment satisfying the constraints, or none if
\* there is none.
Optimize ==
    /\ pc = "built"
    /\ n <= MaxCand
    /\ LET sols == Solutions(candidates, verticales)
       IN  IF sols = {}
           THEN /\ pc' = "infeasible"
                /\ UNCHANGED <<z, x>>
           ELSE /\ \E s \in sols : z' = s[1] /\ x' = s[2]
                /\ pc' = "solved"
    /\ UNCHANGED <<nb_images, images, horizontales, verticales, candidates, n,
                   order, current, slide_order, total_score, final_slideshow>>

\* get_solution, lines 159-160.
GetSolutionInit ==
    /\ pc = "solved"
    /\ order' = <<>>
    /\ current' = 0
    /\ pc' = "walk"
    /\ UNCHANGED <<nb_images, images, horizontales, verticales, candidates, n,
                   z, x, slide_order, total_score, final_slideshow>>

\* One iteration of the while loop in which the for loop finds an arc.
WalkStep ==
    /\ pc = "walk"
    /\ ~WalkOver(x, n, current)
    /\ Len(order) < n + 1 + MaxExtraSteps
    /\ LET j == NextNode(x, n, current)
       IN  /\ order' = Append(order, j)
           /\ current' = j
    /\ UNCHANGED <<nb_images, images, horizontales, verticales, candidates, n,
                   z, x, slide_order, total_score, final_slideshow, pc>>

\* The loop is left (END reached, or the for-else break) and get_solution
\* returns the candidate order; no exception is raised on either way out.
GetSolutionReturn ==
    /\ pc = "walk"
    /\ WalkOver(x, n, current)
    /\ slide_order' = candidate_order(order, n)
    /\ pc' = "extracted"
    /\ UNCHANGED <<nb_images, images, horizontales, verticales, candidates, n,
                   z, x, order, current, total_score, final_slideshow>>

\* The main script after get_solution: the score and the final slideshow.
Report ==
    /\ pc = "extracted"
    /\ total_score' = TotalScore(slide_order, candidates)
    /\ final_slideshow' = FinalSlideshow(slide_order, z, candidates)
    /\ pc' = "done"
    /\ UNCHANGED <<nb_images, images, horizontales, verticales, candidates, n,
                   z, x, order, current, slide_order>>

Next ==
    \/ ReadLine
    \/ BuildModel
    \/ Optimize
    \/ GetSolutionInit
    \/ WalkStep
    \/ GetSolutionReturn
    \/ Report

Spec == Init /\ [][Next]_vars

(* ---------------- read_file and build_model on their own -------------- *)

InitBuild ==
    /\ nb_images \in 0..MaxBuildPhotos
    /\ images = <<>>
    /\ horizontales = <<>>
    /\ verticales = <<>>
    /\ candidates = <<>>
    /\ n = 0
    /\ z = <<>>
    /\ x = <<>>
    /\ order = <<>>
    /\ current = 0
    /\ slide_order = <<>>
    /\ total_score = 0
    /\ final_slideshow = <<>>
    /\ pc = "read"

NextBuild ==
    \/ ReadLine
    \/ BuildModel

SpecBuild == InitBuild /\ [][NextBuild]_vars

(* ------------- get_solution on an arbitrary arc assignment ------------ *)

\* The arc assignment with value 1 exactly on the arcs of ones.
ArcAssignment(nn, ones) == [a \in Arcs(nn) |-> IF a \in ones THEN 1 ELSE 0]

\* get_solution is called with any 0/1 values of the arcs over nn + 2
\* nodes, at most MaxOnes of them 1.
InitWalk ==
    /\ nb_images = 0
    /\ images = <<>>
    /\ horizontales = <<>>
    /\ verticales = <<>>
    /\ candidates = <<>>
    /\ n \in 0..MaxWalkCand
    /\ z = <<>>
    /\ \E pick \in [1..MaxOnes -> Arcs(n)] :
          \E k \in 0..MaxOnes :
              x = ArcAssignment(n, {pick[m] : m \in 1..k})
    /\ order = <<>>
    /\ current = 0
    /\ slide_order = <<>>
    /\ total_score = 0
    /\ final_slideshow = <<>>
    /\ pc = "solved"

NextWalk ==
    \/ GetSolutionInit
    \/ WalkStep
    \/ GetSolutionReturn

SpecWalk == InitWalk /\ [][NextWalk]_vars

(* ======================= properties of the model ====================== *)

\* get_solution has returned.
Extracted == pc \in {"extracted", "done"}

\* The candidates an assignment selects.
Selected(zz) == {s \in DOMAIN zz : zz[s] = 1}

\* How often value v occurs in seq.
Occurrences(seq, v) == Cardinality({k \in 1..Len(seq) : seq[k] = v})

\* The slides of a slideshow that show photo p.
SlidesWith(show, p) == {k \in 1..Len(show) : p \in Range(show[k])}

\* The arcs a walk through the nodes of ord (after START) follows.
PathArcs(ord) ==
    {<<(IF k = 1 THEN 0 ELSE ord[k - 1]), ord[k]>> : k \in 1..Len(ord)}

\* C1: whenever get_solution returns on an assignment satisfying the
\* constraints of build_model, its walk has reached END and the returned
\* sequence holds exactly the candidates with z = 1, each exactly once.
C1_WalkCoversSelected ==
    Extracted =>
        /\ current = n + 1
        /\ Range(slide_order) = Selected(z)
        /\ Len(slide_order) = Cardinality(Selected(z))
        /\ \A s \in Selected(z) : Occurrences(slide_order, s) = 1

\* C1 witness: three candidates are all selected and all returned, a case
\* in which one node on the path and a cycle of two would meet the degrees.
C1_Witness ==
    /\ pc = "extracted"
    /\ n = 3
    /\ Cardinality(Selected(z)) = 3
    /\ Len(slide_order) = 3

\* C2: in every assignment satisfying the constraints, the arcs with
\* x = 1 are exactly the arcs of the START-to-END path: one arc leaves
\* START counted over every destination (END included), one arc enters END
\* counted over every origin (START included), none enters START and none
\* leaves END.
C2_ArcsAreThePath ==
    Extracted =>
        /\ {a \in Arcs(n) : x[a] = 1} = PathArcs(order)
        /\ quicksum(x, {<<0, j>> : j \in 1..(n + 1)}) = 1
        /\ quicksum(x, {<<i, n + 1>> : i \in 0..n}) = 1
        /\ PrecStart(x, n)
        /\ SuccEnd(x, n)

\* C3: every portrait photo is shown by at most one slide of the final
\* slideshow.
C3_PortraitAtMostOnce ==
    pc = "done" =>
        \A p \in Range(verticales) :
            Cardinality(SlidesWith(final_slideshow, p)) <= 1

\* C3 witness: a final slideshow with a pair slide and a portrait photo
\* that no slide shows.
C3_Witness ==
    /\ pc = "done"
    /\ \E k \in 1..Len(final_slideshow) : Len(final_slideshow[k]) = 2
    /\ \E p \in Range(verticales) : SlidesWith(final_slideshow, p) = {}
    /\ Len(verticales) = 3

\* C4: z is 1 for the 'H' candidate of every landscape photo, the candidate
\* occurs exactly once in the extracted order and the photo is shown by
\* exactly one slide of the final slideshow, alone on it.
C4_LandscapeExactlyOnce ==
    pc = "done" =>
        \A k \in 1..Len(horizontales) :
            /\ candidates[k].type = "H"
            /\ candidates[k].photos = <<horizontales[k]>>
            /\ z[k - 1] = 1
            /\ Occurrences(slide_order, k - 1) = 1
            /\ Cardinality(SlidesWith(final_slideshow, horizontales[k])) = 1
            /\ Occurrences(final_slideshow, <<horizontales[k]>>) = 1

\* C4 witness: a final slideshow of one landscape photo and one pair.
C4_Witness ==
    /\ pc = "done"
    /\ Len(horizontales) = 1
    /\ Len(verticales) = 2
    /\ Len(final_slideshow) = 2

\* C5: the score the main script recomputes over the returned order equals
\* the objective of the model at the assignment.
C5_ScoreIsObjective ==
    pc = "done" => total_score = Objective(x, candidates)

\* C5 witness: a slideshow of three slides whose two transitions score 1.
C5_Witness ==
    /\ pc = "done"
    /\ Len(slide_order) = 3
    /\ total_score = 2

\* The selections a valid slideshow can make: every 'H' candidate, any
\* 'V' candidates that pairwise share no photo, and at least one slide.
ValidSelections(cands) ==
    {S \in SUBSET (0..(Len(cands) - 1)) :
        /\ S # {}
        /\ \A s \in 0..(Len(cands) - 1) : cands[s + 1].type = "H" => s \in S
        /\ \A s \in S : \A t \in S :
              s # t => Range(cands[s + 1].photos)
                          \cap Range(cands[t + 1].photos) = {}}

\* The orderings of a selection, as sequences of candidate indices.
Orderings(S) ==
    {ord \in [1..Cardinality(S) -> S] :
        \A k \in DOMAIN ord : \A m \in DOMAIN ord : k # m => ord[k] # ord[m]}

\* The assignment that encodes the slideshow ord: z is 1 on its slides, x
\* is 1 on the arcs START -> ord[1] -> ... -> ord[last] -> END, pos is the
\* rank of a slide of ord and 1 for every other candidate.
Encoding(ord, nn) ==
    LET path == [k \in 1..(Len(ord) + 1) |->
                    IF k <= Len(ord) THEN ord[k] + 1 ELSE nn + 1]
    IN  [z   |-> [s \in 0..(nn - 1) |-> IF s \in Range(ord) THEN 1 ELSE 0],
         x   |-> ArcAssignment(nn, PathArcs(path)),
         pos |-> [i \in 1..nn |->
                    IF i - 1 \in Range(ord)
                    THEN CHOOSE k \in 1..Len(ord) : ord[k] = i - 1
                    ELSE 1]]

\* The order get_solution returns on the arcs xx, when its walk ends within
\* fuel iterations (the empty order with the walk cut short otherwise).
RECURSIVE WalkResult(_, _, _, _, _)
WalkResult(xx, nn, cur, ord, fuel) ==
    IF WalkOver(xx, nn, cur) THEN candidate_order(ord, nn)
    ELSE IF fuel = 0 THEN <<>>
    ELSE LET j == NextNode(xx, nn, cur)
         IN  WalkResult(xx, nn, j, Append(ord, j), fuel - 1)

\* C6: the model excludes no valid slideshow.  For every catalog with at
\* least one candidate, every valid selection and every ordering of it,
\* the encoding of that slideshow lies in the domains of z, x and pos,
\* satisfies every constraint of build_model, selects exactly the slides of
\* the ordering, leaves every other candidate without arcs, and is walked
\* by get_solution in that order; and a valid selection exists, so the
\* model is feasible.
C6_EveryValidSlideshowIsFeasible ==
    (pc = "built" /\ n >= 1) =>
        /\ ValidSelections(candidates) # {}
        /\ \A S \in ValidSelections(candidates) : \A ord \in Orderings(S) :
              LET a == Encoding(ord, n)
              IN  /\ a.z \in ZDomain(candidates)
                  /\ a.x \in [Arcs(n) -> {0, 1}]
                  /\ a.pos \in PosDomain(n)
                  /\ Constraints(a.z, a.x, a.pos, candidates, verticales)
                  /\ Selected(a.z) = S
                  /\ \A s \in (0..(n - 1)) \ S : \A b \in Arcs(n) :
                        (b[1] = s + 1 \/ b[2] = s + 1) => a.x[b] = 0
                  /\ WalkResult(a.x, n, 0, <<>>, n + 1) = ord

\* C6 witness: the model of four portrait photos is built, and pairing
\* photo 0 with photo 3 and photo 1 with photo 2 is a valid selection.
C6_Witness ==
    /\ pc = "built"
    /\ Len(verticales) = 4
    /\ n = 6
    /\ \E S \in ValidSelections(candidates) :
          {candidates[s + 1].photos : s \in S} = {<<0, 3>>, <<1, 2>>}

\* C7: build_model returns a model only for a catalog that yields at least
\* one candidate and whose photos are all landscape or portrait, so no
\* photo of another orientation is a member of a pair.
C7_BuildModelRejectsInvalidInput ==
    pc = "built" =>
        /\ n >= 1
        /\ \A k \in 1..Len(images) : images[k].orientation \in {"H", "V"}
        /\ \A k \in 1..Len(candidates) : \A p \in Range(candidates[k].photos) :
              images[p + 1].orientation \in {"H", "V"}

\* C8: get_solution returns an order only when its walk has reached END; a
\* walk that stops at a node without an outgoing arc returns nothing.
C8_StuckWalkReturnsNothing ==
    pc = "extracted" => current = n + 1

\* C9: the walk of get_solution makes at most n + 1 steps on any 0/1 arc
\* assignment.
C9_WalkWithinBound ==
    Len(order) <= n + 1

\* C10: build_candidate_slides returns H + V*(V-1)/2 candidates: first the
\* 'H' candidate (p,) of every landscape photo in order, with its tags, then
\* exactly one 'V' candidate (i, j), i < j, for every pair of distinct
\* portrait photos, with the union of their tags; no candidate mixes
\* landscape and portrait photos, repeats a photo or duplicates another.
C10_CandidateSlides ==
    pc = "built" =>
        LET H == Len(horizontales)
            V == Len(verticales)
        IN  /\ 2 * Len(candidates) = 2 * H + V * (V - 1)
            /\ \A k \in 1..H :
                  /\ candidates[k].type = "H"
                  /\ candidates[k].photos = <<horizontales[k]>>
                  /\ candidates[k].tags = images[horizontales[k] + 1].tags
                  /\ images[horizontales[k] + 1].orientation = "H"
            /\ \A k \in (H + 1)..Len(candidates) :
                  LET c == candidates[k]
                  IN  /\ c.type = "V"
                      /\ Len(c.photos) = 2
                      /\ c.photos[1] < c.photos[2]
                      /\ Range(c.photos) \subseteq Range(verticales)
                      /\ c.tags = images[c.photos[1] + 1].tags
                                    \cup images[c.photos[2] + 1].tags
                      /\ \A p \in Range(c.photos) :
                            images[p + 1].orientation # "H"
            /\ \A i \in Range(verticales) : \A j \in Range(verticales) :
                  i < j => Occurrences([k \in 1..Len(candidates) |->
                                           candidates[k].photos], <<i, j>>) = 1
            /\ \A k \in 1..Len(candidates) : \A m \in 1..Len(candidates) :
                  k # m => candidates[k].photos # candidates[m].photos

\* C10 witness: one landscape and three portrait photos give four
\* candidates, one of them a pair whose tags are a proper union.
C10_Witness ==
    /\ pc = "built"
    /\ Len(horizontales) = 1
    /\ Len(verticales) = 3
    /\ Len(candidates) = 4
    /\ \E k \in 1..Len(candidates) : candidates[k].tags = {"a", "b", "c"}

====
